---- MODULE Spec2Model ----
(***************************************************************************)
(* Zen Counter (src/App.tsx, src/services/supabaseService.ts): the        *)
(* sentence selector (shuffle bag), the session cycle controller and the  *)
(* interaction gate, as a state machine.                                  *)
(*                                                                         *)
(* One action is one event-loop task of the browser: an event handler or  *)
(* a timer/promise callback, together with the React commit it causes and *)
(* the effects (useEffect) that commit runs.  The refs that the source    *)
(* synchronises with state in effects (currentNumberRef,                  *)
(* countdownConfigRef, sessionFocusIdRef, counterModeRef, allSentencesRef;*)
(* App.tsx 224-227 and 459-461) equal their state after every commit, so  *)
(* the model reads the state variable for them.  The refs that are        *)
(* written directly (sentenceQueue, lastShownIdRef, isAnimatingRef) are   *)
(* variables of their own.                                                *)
(***************************************************************************)
EXTENDS Integers, Sequences, FiniteSets, Bags, TLC

VARIABLES
  \* React state of App
  currentNumber, randomLimit, countdownConfig, currentSentence, counterMode,
  sessionFocusId, showStats, showManage, allSentences, dailyStats,
  \* refs written directly
  sentenceQueue, lastShownIdRef, isAnimatingRef,
  \* the pending setTimeout of handleInteraction: "none", or the mode it captured
  tickTimer,
  \* the store's daily_stats rows of today and the incrementStat calls in flight
  dbStats, incCalls,
  \* the store's sentences and sentence_categories rows, and the position of
  \* the deleteSentence call in flight
  dbContent, delCall,
  \* history variables (not program state); track says which are recorded
  track, sel, win, streak, focusCase, modeCase, loaded, modal, statLog, incLog,
  opLog, batch, atAccept,
  \* Date.now() as the listeners read it, the refs lastScrollTime and
  \* touchStartY, and the latest gesture that reached handleInteraction
  now, lastScrollTime, touchStartY, reach,
  \* the pending setTimeouts of handleInteraction after the first (tickTimer),
  \* in the order they were set, and the history of the latest input event
  moreTimers, tap,
  \* the user logged in (useState currentUser)
  currentUser,
  \* the store's rows of the user's sentences (text and category links) and
  \* the updateSentence call in flight
  dbRows, updCall,
  \* useState dailyTime and unsyncedTime, the incrementDailyTime call in
  \* flight, and the number of seconds the activity timer has counted
  dailyTime, unsyncedTime, timeCall, counted,
  \* subscribeToChanges: the closure variable pollingInterval, the number of
  \* setInterval timers of the subscription not cleared, whether the returned
  \* unsubscribe function has run, and the history of the statuses and fetches
  pollingInterval, pollTimers, unsubscribed, poll

sessionVars == <<currentNumber, randomLimit, countdownConfig, currentSentence,
                 counterMode, sessionFocusId, allSentences, sentenceQueue,
                 lastShownIdRef>>
gateVars == <<showStats, showManage, isAnimatingRef, tickTimer>>
tableVars == <<dbContent, delCall>>
storeVars == <<dailyStats, dbStats, incCalls, tableVars>>
histVars == <<track, sel, win, streak, focusCase, modeCase, loaded, modal,
              statLog, incLog, opLog,
      batch, atAccept>>
\* the listeners' refs and the clock, with the history of the gestures
inputVars == <<now, lastScrollTime, touchStartY>>
hapticVars == <<moreTimers, tap>>
\* the state of the parts of the app around the session
updVars == <<dbRows, updCall>>
timeVars == <<dailyTime, unsyncedTime, timeCall, counted>>
pollVars == <<pollingInterval, pollTimers, unsubscribed, poll>>
serviceVars == <<updVars, timeVars, pollVars>>
restVars == <<currentUser, serviceVars>>
extVars == <<inputVars, reach, hapticVars, restVars>>
vars == <<sessionVars, gateVars, storeVars, histVars, extVars>>

\* ------------------------------------------------------------------ bounds
\* Number of tick timers that may be pending after the first.
MaxTimers == 2
\* statuses the channel reports, and fetches polling makes
MaxStatuses == 4
MaxPolls == 4
\* seconds the activity timer counts
MaxActive == 4
\* calls of updateSentence
MaxUpdates == 2
\* Number of steps the clock of the input listeners advances.
MaxNow == 3
\* Number of content snapshots of the catalogue the store may deliver.
NSnap == 2
\* Largest fixed cycle length the user configures (the input accepts 1..50).
MaxCfg == 1
\* Cap of the count-up counter (unbounded in the source).
MaxCount == 2
\* Most incrementStat calls that are in flight or have raised a count.
MaxCalls == 2
\* Cap of the seconds accumulated in the time-tracker row.
MaxSeconds == 1
\* Number of deleteSentence calls.
MaxDeletes == 1

\* ------------------------------------------------------- program constants
\* lastShownIdRef starts null; a sentence that is null has this id.
NullId == 0
\* The filter 'all'.
AllFocus == 0
\* Math.floor(Math.random() * 7) + 1
RandomSpan == 7
\* The fallback cycle length of getNextLimit.
DefaultLimit == 3
\* useState(3): the initial number, limit and configured length.
InitialNumber == 3
\* TIME_TRACKER_ID, 'GLOBAL_TIME_TRACKER': no sentence has this id.
TimeTrackerId == 9

\* ------------------------------------------------------------------- data
\* countdownConfig: a number (NaN is a number), or 'random'.
Cfg(n) == [random |-> FALSE, nan |-> FALSE, n |-> n]
NaNCfg == [random |-> FALSE, nan |-> TRUE, n |-> 0]
RandomCfg == [random |-> TRUE, nan |-> FALSE, n |-> 0]
\* What parseInt can make of the text of the cycle-length input.
Typed == {Cfg(n) : n \in (-MaxCfg)..MaxCfg} \cup {NaNCfg}
\* The values the menu passes to setCountdownConfig: the input's onChange
\* passes val if (!isNaN(val) && val > 0); the RND button passes 'random'.
Configs == {val \in Typed : ~val.nan /\ val.n > 0} \cup {RandomCfg}

Null == [id |-> NullId, cats |-> {}]

Cats == {1}
Filters == {AllFocus} \cup Cats

\* Sentences as the store returns them: an id and its category ids.
SA == [id |-> 1, cats |-> {1}]
SB == [id |-> 2, cats |-> {1}]
SC == [id |-> 3, cats |-> {}]
\* Sentence 1 with its category removed, and a fourth sentence.
SA2 == [id |-> 1, cats |-> {}]
SD == [id |-> 4, cats |-> {1}]

\* Lists syncData can return: the empty list (no rows, or a failed fetch),
\* the full list, the list after sentences 1 and 2 were deleted, after
\* sentence 1 lost its category, and after a fourth sentence was added.
Catalogue ==
  << <<>>, <<SA, SB, SC>>, <<SC>>, <<SA2, SB, SC>>, <<SD, SA, SB, SC>> >>

Snapshots == {Catalogue[i] : i \in 1..(IF NSnap < Len(Catalogue) THEN NSnap ELSE Len(Catalogue))}

Range(q) == {q[i] : i \in 1..Len(q)}
Ids(q) == {q[i].id : i \in 1..Len(q)}
Front(q) == SubSeq(q, 1, Len(q) - 1)
Last(q) == q[Len(q)]
\* A faulty exchange: position i is overwritten, position j keeps its element.
SwapOverwrites(q, i, j) == [q EXCEPT ![i] = q[j]]
Swap(q, i, j) == [q EXCEPT ![i] = q[j], ![j] = q[i]]

\* ------------------------------------------------------- shuffle-bag selector
Matches(s, focusId) == focusId = AllFocus \/ focusId \in s.cats

\* A faulty filter: every sentence is relevant.
RelevantUnfiltered(sents, focusId) == sents
\* relevant = sents.filter(...)
Relevant(sents, focusId) == SelectSeq(sents, LAMBDA s : Matches(s, focusId))

\* The Fisher-Yates loop from index i down: every choice of j in 0..i.
RECURSIVE FisherYates(_, _)
FisherYates(q, i) ==
  IF i <= 1 THEN {q}
  ELSE UNION {FisherYates(Swap(q, i, j), i - 1) : j \in 1..i}

\* A faulty boundary check: the bag is left as shuffled.
BoundaryCheckSkipped(q, last) == q
\* The boundary check: the next-to-pop element is the last one.
BoundaryCheck(q, last) ==
  IF last # NullId /\ Len(q) > 1 /\ Last(q).id = last
  THEN Swap(q, Len(q), 1)
  ELSE q

\* The new queues a refill can produce.
Refill(relevant, last) ==
  {BoundaryCheck(q, last) : q \in FisherYates(relevant, Len(relevant))}

\* A faulty validate loop: what was popped is accepted as it is.
ValidateAccepts(next, queue, relevant) ==
  [exhausted |-> FALSE, next |-> next, queue |-> queue]
\* The validate loop: next was popped, queue is what is left.  Yields the
\* accepted element, or exhausted when the queue ran out on stale entries.
RECURSIVE Validate(_, _, _)
Validate(next, queue, relevant) ==
  IF next.id \in Ids(relevant)
  THEN [exhausted |-> FALSE, next |-> next, queue |-> queue]
  ELSE IF Len(queue) = 0
       THEN [exhausted |-> TRUE, next |-> Null, queue |-> queue]
       ELSE Validate(Last(queue), Front(queue), relevant)

\* A faulty selector: a single relevant sentence goes through the bag too.
RECURSIVE getNextSentenceThroughBag(_, _, _, _)
getNextSentenceThroughBag(sents, focusId, queue, last) ==
  LET relevant == Relevant(sents, focusId) IN
  IF Len(relevant) = 0
  THEN {[next |-> Null, queue |-> queue, last |-> last, refilled |-> FALSE]}
  ELSE LET refill == Len(queue) = 0
           queues == IF refill THEN Refill(relevant, last) ELSE {queue}
       IN UNION {
            LET v == Validate(Last(q), Front(q), relevant) IN
            IF v.exhausted
            THEN {[o EXCEPT !.refilled = TRUE] :
                    o \in getNextSentenceThroughBag(sents, focusId, v.queue, last)}
            ELSE {[next |-> v.next, queue |-> v.queue, last |-> v.next.id,
                   refilled |-> refill]}
            : q \in queues}

\* getNextSentence(focusId) on the refs (sents, queue, last): the set of
\* outcomes [next, queue, last, refilled] over the shuffle's random choices.
\* refilled records whether the call refilled the bag.
RECURSIVE getNextSentence(_, _, _, _)
getNextSentence(sents, focusId, queue, last) ==
  LET relevant == Relevant(sents, focusId) IN
  IF Len(relevant) = 0
  THEN {[next |-> Null, queue |-> queue, last |-> last, refilled |-> FALSE]}
  ELSE IF Len(relevant) = 1
  THEN {[next |-> relevant[1], queue |-> queue, last |-> last, refilled |-> FALSE]}
  ELSE LET refill == Len(queue) = 0
           queues == IF refill THEN Refill(relevant, last) ELSE {queue}
       IN UNION {
            LET v == Validate(Last(q), Front(q), relevant) IN
            IF v.exhausted
            THEN {[o EXCEPT !.refilled = TRUE] :
                    o \in getNextSentence(sents, focusId, v.queue, last)}
            ELSE {[next |-> v.next, queue |-> v.queue, last |-> v.next.id,
                   refilled |-> refill]}
            : q \in queues}

\* --------------------------------------------------- session cycle controller
\* The session as a value: React state and the selector's refs, plus two
\* counters of what the running task did (draws: calls of getNextSentence;
\* picked: setCurrentSentence was given a result of getNextSentence).
Session ==
  [num |-> currentNumber, limit |-> randomLimit, cfg |-> countdownConfig,
   sent |-> currentSentence, mode |-> counterMode, focus |-> sessionFocusId,
   sents |-> allSentences, queue |-> sentenceQueue, last |-> lastShownIdRef,
   draws |-> 0, picked |-> FALSE]

\* A faulty generator: the configured number is returned as it is.
getNextLimitAsConfigured(cfg) ==
  IF cfg.random THEN 1..RandomSpan ELSE {cfg.n}
\* getNextLimit(); NaN > 0 is false.
getNextLimit(cfg) ==
  IF cfg.random THEN 1..RandomSpan
  ELSE {IF ~cfg.nan /\ cfg.n > 0 THEN cfg.n ELSE DefaultLimit}

\* A faulty reset: the count is seeded with the limit whatever the mode.
resetCycleSeedsLimit(st, mode, focusId) ==
  {[st EXCEPT !.limit = newLimit, !.sent = o.next,
              !.num = newLimit,
              !.queue = o.queue, !.last = o.last,
              !.draws = @ + 1, !.picked = TRUE] :
     newLimit \in getNextLimit(st.cfg),
     o \in getNextSentence(st.sents, focusId, st.queue, st.last)}
\* resetCycle(mode, focusId)
resetCycle(st, mode, focusId) ==
  {[st EXCEPT !.limit = newLimit, !.sent = o.next,
              !.num = IF mode = "down" THEN newLimit ELSE 1,
              !.queue = o.queue, !.last = o.last,
              !.draws = @ + 1, !.picked = TRUE] :
     newLimit \in getNextLimit(st.cfg),
     o \in getNextSentence(st.sents, focusId, st.queue, st.last)}

\* A faulty initial-load effect: it resets with the count seeded for mode
\* down, whatever the mode.
EffectInitialLoadDown(rendered, acc) ==
  IF rendered.sent = Null /\ Len(rendered.sents) > 0
  THEN resetCycle(acc, "down", rendered.focus)
  ELSE {acc}

\* useEffect "1. Initial Load (Data Arrival)": rendered is the state of the
\* render whose effects run, acc the state the effects have built so far.
EffectInitialLoad(rendered, acc) ==
  IF rendered.sent = Null /\ Len(rendered.sents) > 0
  THEN resetCycle(acc, rendered.mode, rendered.focus)
  ELSE {acc}

\* useEffect "2. Focus/Category Change -> Full Reset"
EffectFocusChange(rendered, acc) ==
  IF Len(rendered.sents) > 0
  THEN resetCycle(acc, rendered.mode, rendered.focus)
  ELSE {acc}

\* useEffect "3. Config Change -> Update Limit ONLY (Preserve Flow)"
EffectConfigChange(rendered, acc) ==
  LET limits == IF rendered.cfg.random THEN 1..RandomSpan
                ELSE {IF ~rendered.cfg.nan /\ rendered.cfg.n > 0
                      THEN rendered.cfg.n ELSE DefaultLimit}
  IN {[acc EXCEPT !.limit = newLimit,
                  !.num = IF rendered.mode = "down" THEN newLimit ELSE 1] :
        newLimit \in limits}

\* A React commit: prev is the state of the previous render, cur the state
\* after the task's setState calls, newList whether setAllSentences was given
\* a new array.  The effects whose dependencies changed run in source order
\* on the rendered values; what they set is committed in turn.
RECURSIVE Commit(_, _, _)
Commit(prev, cur, newList) ==
  LET runInit == newList \/ prev.sent # cur.sent \/ prev.mode # cur.mode
                 \/ prev.focus # cur.focus
      runFocus == prev.focus # cur.focus
      runCfg == prev.cfg # cur.cfg
      a1 == IF runInit THEN EffectInitialLoad(cur, cur) ELSE {cur}
      a2 == UNION {IF runFocus THEN EffectFocusChange(cur, a) ELSE {a} : a \in a1}
      a3 == UNION {IF runCfg THEN EffectConfigChange(cur, a) ELSE {a} : a \in a2}
      Same(a) == a.num = cur.num /\ a.limit = cur.limit /\ a.sent = cur.sent
  IN UNION {IF Same(a) THEN {a} ELSE Commit(cur, a, FALSE) : a \in a3}

\* A faulty handler: the bag is left as it is.
handleFocusChangeKeepsBag(st, id) ==
  IF id = st.focus THEN {st}
  ELSE Commit(st, [st EXCEPT !.focus = id], FALSE)
\* handleFocusChange(e, id)
handleFocusChange(st, id) ==
  IF id = st.focus THEN {st}
  ELSE Commit(st, [st EXCEPT !.focus = id, !.queue = <<>>], FALSE)

\* toggleMode(e)
toggleMode(st) ==
  LET newMode == IF st.mode = "down" THEN "up" ELSE "down"
      flipped == [st EXCEPT !.mode = newMode]
      set == IF newMode = "down" THEN resetCycle(flipped, "down", st.focus)
             ELSE {[flipped EXCEPT !.num = 1]}
  IN UNION {Commit(st, c, FALSE) : c \in set}

\* The cycle-length input's onChange and the RND button: setCountdownConfig.
setCountdownConfig(st, cfg) == Commit(st, [st EXCEPT !.cfg = cfg], FALSE)

\* setAllSentences(sents): the subscription's content callback, and the
\* content part of refreshData.
setAllSentences(st, sents) == Commit(st, [st EXCEPT !.sents = sents], TRUE)

\* A faulty callback: in mode up the count wraps to 1 at the cycle length.
timeoutBodyWraps(st, mode) ==
  LET valNow == st.num
      set == IF mode = "down"
             THEN IF valNow <= 1
                  THEN {[st EXCEPT !.limit = newLimit, !.sent = o.next,
                                   !.num = newLimit, !.queue = o.queue,
                                   !.last = o.last, !.draws = @ + 1,
                                   !.picked = TRUE] :
                          newLimit \in getNextLimit(st.cfg),
                          o \in getNextSentence(st.sents, st.focus, st.queue, st.last)}
                  ELSE {[st EXCEPT !.num = valNow - 1]}
             ELSE {[st EXCEPT !.num = IF valNow >= st.limit THEN 1 ELSE valNow + 1]}
  IN UNION {Commit(st, c, FALSE) : c \in set}

\* The body of handleInteraction's setTimeout callback; mode is the mode the
\* handler captured when the tick was accepted.
timeoutBody(st, mode) ==
  LET valNow == st.num
      set == IF mode = "down"
             THEN IF valNow <= 1
                  THEN {[st EXCEPT !.limit = newLimit, !.sent = o.next,
                                   !.num = newLimit, !.queue = o.queue,
                                   !.last = o.last, !.draws = @ + 1,
                                   !.picked = TRUE] :
                          newLimit \in getNextLimit(st.cfg),
                          o \in getNextSentence(st.sents, st.focus, st.queue, st.last)}
                  ELSE {[st EXCEPT !.num = valNow - 1]}
             ELSE {[st EXCEPT !.num = valNow + 1]}
  IN UNION {Commit(st, c, FALSE) : c \in set}

\* handleDeleteSentence(id) after deleteSentence succeeded.
handleDeleteSentence(st, id) ==
  LET remaining == SelectSeq(st.sents, LAMBDA s : s.id # id)
      set == IF st.sent.id = id /\ st.sent # Null
             THEN IF Len(remaining) > 0
                  THEN {[st EXCEPT !.sents = remaining, !.sent = remaining[i]] :
                          i \in 1..Len(remaining)}
                  ELSE {[st EXCEPT !.sents = remaining, !.sent = Null]}
             ELSE {[st EXCEPT !.sents = remaining]}
  IN UNION {Commit(st, c, TRUE) : c \in set}

\* The session variables take the values of st.
Becomes(st) ==
  /\ currentNumber' = st.num
  /\ randomLimit' = st.limit
  /\ countdownConfig' = st.cfg
  /\ currentSentence' = st.sent
  /\ counterMode' = st.mode
  /\ sessionFocusId' = st.focus
  /\ allSentences' = st.sents
  /\ sentenceQueue' = st.queue
  /\ lastShownIdRef' = st.last

\* ---------------------------------------------------------- interaction gate
\* A faulty gate: the lock ref is not consulted.
BlockedWithoutLock == showStats \/ showManage
\* A faulty gate: the overlays are not consulted.
BlockedWithoutOverlays == isAnimatingRef
\* handleInteraction's first line: the lock ref and the two overlays.
Blocked == isAnimatingRef \/ showStats \/ showManage

\* A faulty call site: incrementStat is called whether or not a sentence is
\* displayed.
IssuedCallsUnguarded(sentence) == <<sentence.id>>
\* if (currentSentence) supabaseService.incrementStat(currentSentence.id):
\* the ids incrementStat is called with by one accepted tick.
IssuedCalls(sentence) == IF sentence # Null THEN <<sentence.id>> ELSE <<>>

\* The top menu bar takes pointer events only while no overlay is open.
MenuUsable == ~showStats /\ ~showManage

\* --------------------------------------------------------------- the store
\* syncData(): the sentences the store holds when its requests succeed (ok);
\* the catch branch returns [].
syncData(stored, ok) == IF ok THEN stored ELSE <<>>

\* The count of today's daily_stats row of id, 0 when there is no row
\* (existing?.count || 0).
Count(id) == IF id \in DOMAIN dbStats THEN dbStats[id] ELSE 0

\* A faulty count: the row is written as if it had not existed.
NewCountFromZero(existing) == 1
\* incrementStat: const newCount = (existing?.count || 0) + 1
NewCount(existing) == existing + 1

\* The upsert of (id, count) into today's rows.
Upsert(id, count) ==
  [i \in DOMAIN dbStats \cup {id} |-> IF i = id THEN count ELSE dbStats[i]]

\* An incrementStat(id) call that has not yet read the row.
Call(id) == [id |-> id, phase |-> "select", existing |-> 0]

\* The sum of the counts of today's rows of sentences.
RECURSIVE SumCounts(_)
SumCounts(ids) ==
  IF ids = {} THEN 0
  ELSE LET id == CHOOSE x \in ids : TRUE
       IN dbStats[id] + SumCounts(ids \ {id})
Counted == SumCounts(DOMAIN dbStats \ {TimeTrackerId})

\* The sentences and sentence_categories rows of the user: the ids of the
\* sentences, and the ids of those that have category links.
StoredContent ==
  [sentences |-> Ids(Catalogue[2]),
   links |-> {Catalogue[2][i].id : i \in {j \in 1..Len(Catalogue[2]) :
                                            Catalogue[2][j].cats # {}}}]
\* What syncData reads from the rows: the sentences that have a row, each
\* with the categories its links give it.
StoredList ==
  LET kept == SelectSeq(Catalogue[2], LAMBDA s : s.id \in dbContent.sentences)
  IN [i \in 1..Len(kept) |->
        IF kept[i].id \in dbContent.links THEN kept[i]
        ELSE [kept[i] EXCEPT !.cats = {}]]

\* deleteSentence(id): no call, or the request the call in flight makes next
\* ("links", "stats", "sentence"), or what the last call returned; n counts
\* the calls made.
NoDelCall == [phase |-> "idle", id |-> NullId, n |-> 0]
\* today's rows without the rows of id
WithoutRow(id) == [i \in DOMAIN dbStats \ {id} |-> dbStats[i]]

\* The operations of supabaseService that talk to the store, and the number
\* of requests each awaits in turn, auth.getSession (getCurrentUser) first.
StoreOps ==
  {"syncData", "addCategory", "addSentence", "updateSentence", "deleteSentence",
   "getDailyStats", "incrementStat", "updateDailyCount", "resetAllStats"}
Requests(op) ==
  CASE op \in {"updateSentence", "deleteSentence"} -> 4
    [] op \in {"addSentence", "incrementStat"} -> 3
    [] OTHER -> 2
\* A faulty operation: getCurrentUser is awaited before the try block.
TryFromSecond(op) == 2
\* The first request inside the operation's try block.
TryFrom(op) == 1
\* What the caller gets when the k-th request fails: the value of the catch
\* block (or of the error check), or the exception itself.
Outcome(op, k) ==
  IF k < TryFrom(op) THEN "throws"
  ELSE CASE op \in {"syncData", "getDailyStats"} -> "[]"
         [] op = "addCategory" -> "{data: null, error}"
         [] op = "incrementStat" -> "void"
         [] OTHER -> "{success: false, error}"

\* getDailyStats(): every row of today, the time-tracker row included; the
\* empty list when the query fails.
Rows == {[sentence_id |-> id, count |-> dbStats[id]] : id \in DOMAIN dbStats}
getDailyStats == {Rows, {}}

\* handleStatsEvent: stats.filter(s => s.sentence_id !== TIME_TRACKER_ID)
cleanStats(stats) == {r \in stats : r.sentence_id # TimeTrackerId}

\* ------------------------------------------------------------------ history
\* The history variables record what the properties speak of.  A behaviour
\* records one group of them, named by track, which never changes; the
\* program's variables do not depend on them.
\*   "focus"  focusCase       "lock"   win         "run"  streak
\*   "op"     loaded          "stats"  statLog, incLog    "sel"  sel
\*   "mode"   modeCase        "modal"  modal       "err"  opLog
\*   "batch"  batch           "tick"   atAccept    "gesture"  reach
\*   "haptic" tap

\* streak: the countdown run in progress.  k timer callbacks ran since it
\* started with the count at len and sent displayed; draws counts the calls
\* of getNextSentence those callbacks (and the commits they caused) made.
NoStreak == [k |-> -1, len |-> 0, sent |-> Null, draws |-> 0]
\* A run can start: a fixed length is configured and committed, the mode is
\* down, the count is that length and no tick is in flight.
StreakStart(st, timer) ==
  /\ ~st.cfg.random /\ st.mode = "down" /\ timer = "none"
  /\ st.limit \in getNextLimit(st.cfg) /\ st.num = st.limit
FreshStreak(st, timer) ==
  IF StreakStart(st, timer)
  THEN [k |-> 0, len |-> st.limit, sent |-> st.sent, draws |-> 0]
  ELSE NoStreak
\* The run after a timer callback took pre to st.
StreakAfterTimer(pre, st) ==
  LET base == IF streak.k = streak.len THEN FreshStreak(pre, "none") ELSE streak
  IN IF base.k < 0 THEN FreshStreak(st, "none")
     ELSE [base EXCEPT !.k = @ + 1, !.draws = @ + st.draws]
LogStreak(s) == streak' = IF track = "run" THEN s ELSE streak

\* win: the lock window opened by the latest accepted tick.  extra: a further
\* event reached handleInteraction while the lock was held; accepted, stats,
\* fires: the ticks accepted, the incrementStat calls issued and the timer
\* callbacks run in the window; shown: a sentence was displayed at acceptance.
NoWin == [extra |-> FALSE, accepted |-> 0, stats |-> 0, fires |-> 0,
          shown |-> FALSE]
LogWin(w) == win' = IF track = "lock" THEN w ELSE win

\* focusCase: picked, the last session task committed a result of
\* getNextSentence; hadBag, hadTimer, the latest filter change found the bag
\* non-empty / a tick timer pending; superseded, a filter change reset the
\* cycle while the timer that is still pending was pending.
NoFocusCase == [picked |-> FALSE, hadBag |-> FALSE, hadTimer |-> FALSE,
                superseded |-> FALSE]
LogFocusCase(f) == focusCase' = IF track = "focus" THEN f ELSE focusCase

\* modeCase: up, the latest toggle to mode up found the sentence sent
\* displayed and no filter change, cycle-length change, toggle or deletion
\* has happened since; down, the last task was a toggle to mode down, and
\* picked whether it committed a result of getNextSentence.
NoModeCase == [up |-> FALSE, sent |-> Null, down |-> FALSE, picked |-> FALSE]
LogModeCase(m) == modeCase' = IF track = "mode" THEN m ELSE modeCase
\* The case after a task that is not an explicit reset.
ModeCaseKept == [modeCase EXCEPT !.down = FALSE, !.picked = FALSE]

\* loaded: a sentence has been displayed (the initial load is over).
LogLoaded(st) == loaded' = IF track = "op" THEN (loaded \/ st.sent # Null) ELSE loaded

\* modal: an input event reached handleInteraction while the overlay that is
\* open was open.
LogModal(m) == modal' = IF track = "modal" THEN m ELSE modal

\* opLog: the latest store operation that hit a store error: the operation,
\* the request that failed, what the caller got, and whether a tick has been
\* accepted since.
NoOpLog == [op |-> "none", at |-> 0, got |-> "none", ticked |-> FALSE]
LogOp(l) == opLog' = IF track = "err" THEN l ELSE opLog

\* batch: the incrementStat calls issued for the sentence id since a call for
\* it was issued with none for it in flight and the row's count at prior: k
\* calls, none of which has failed; serial, none was issued while another
\* for id was in flight.
NoBatch == [id |-> NullId, prior |-> 0, k |-> 0, serial |-> TRUE, valid |-> FALSE]
InFlight(id) == \E c \in BagToSet(incCalls) : c.id = id
BatchAfterIssue(ids) ==
  IF ids = <<>> THEN batch
  ELSE IF batch.valid /\ batch.id = ids[1]
  THEN [batch EXCEPT !.k = @ + 1, !.serial = @ /\ ~InFlight(ids[1])]
  ELSE IF InFlight(ids[1]) THEN NoBatch
  ELSE [id |-> ids[1], prior |-> Count(ids[1]), k |-> 1, serial |-> TRUE,
        valid |-> TRUE]
LogBatch(b) == batch' = IF track = "batch" THEN b ELSE batch

\* atAccept: currentNumber when the tick whose timer is pending was accepted
\* (0 while no timer is pending).
LogAccept(n) == atAccept' = IF track = "tick" THEN n ELSE atAccept

\* statLog: the latest accepted tick, the id displayed when it was accepted
\* and the ids incrementStat was called with.  incLog: the latest upsert of
\* incrementStat: quiet, the row was not written between the call's select
\* and its upsert; rise, by how much the upsert changed the row's count.
NoStatLog == [made |-> FALSE, shown |-> NullId, calls |-> <<>>]
LogStat(l) == statLog' = IF track = "stats" THEN l ELSE statLog
NoIncLog == [made |-> FALSE, quiet |-> FALSE, rise |-> 0]

\* sel: the latest call of getNextSentence (n: the size of the relevant set,
\* prevLast: lastShownIdRef before the call, bag: the size of the bag the
\* call found), and the ids returned since the
\* latest refilling call while neither the list nor the filter changed (open).
NoCall == [made |-> FALSE, refilled |-> FALSE, prevLast |-> NullId,
           id |-> NullId, n |-> 0, bag |-> 0]
NoSel == [open |-> FALSE, n |-> 0, ids |-> <<>>, call |-> NoCall]
SelClosed(s) == [s EXCEPT !.open = FALSE, !.ids = <<>>, !.n = 0]
SelAfterCall(s, o, prevLast, n) ==
  LET call == [made |-> TRUE, refilled |-> o.refilled, prevLast |-> prevLast,
               id |-> o.next.id, n |-> n, bag |-> 0]
  IN IF o.refilled
     THEN [open |-> TRUE, n |-> n, ids |-> <<o.next.id>>, call |-> call]
     ELSE IF s.open /\ Len(s.ids) < s.n
     THEN [s EXCEPT !.ids = Append(@, o.next.id), !.call = call]
     ELSE [SelClosed(s) EXCEPT !.call = call]

\* ------------------------------------------------------- the input listeners
\* The cooldown of handleWheel and handleTouchMove, in ms.
CooldownMs == 600
\* The clock is read in steps of 300 ms: two readings are equal, 300 ms
\* apart (inside the cooldown) or at least 600 ms apart.
ClockStep == 300
\* Date.now() at the mount: any reading is at least a cooldown after the
\* epoch, where lastScrollTime starts.
FirstNow == CooldownMs
\* deltaY of a wheel event, clientY of a touch, the tag of a key event's
\* target and its code.
WheelDeltas == {-20, -10, 10}
TouchYs == {0, 50, 100, 160}
Targets == {"INPUT", "TEXTAREA", "DIV"}
KeyCodes == {"Space", "KeyA"}

\* reach: the latest gesture whose listener called handleInteraction: kind,
\* its deltaY or its clientY less the clientY of the gesture's touchstart
\* (arg), its target, whether the lock was held; at, the clock at the latest
\* wheel or touch call, gap, the time from the wheel or touch call before it
\* (-1: none), prevKind, the kind of that call; start, the clientY of the
\* latest touchstart.
NoReach == [kind |-> "none", arg |-> 0, target |-> "none", locked |-> FALSE,
            at |-> -1, gap |-> -1, prevKind |-> "none", start |-> 0]
LogReach(r) == reach' = IF track = "gesture" THEN r ELSE reach
ScrollReach(kind, arg) ==
  [reach EXCEPT !.kind = kind, !.arg = arg, !.target = "none",
                !.locked = isAnimatingRef, !.at = now,
                !.gap = IF reach.at = -1 THEN -1 ELSE now - reach.at,
                !.prevKind = IF reach.at = -1 THEN "none"
                             ELSE IF reach.kind = "key" THEN @ ELSE reach.kind]

\* tap: the latest input event that reached handleInteraction from outside:
\* the runs of handleInteraction it caused that got past the first line, the
\* incrementStat calls and the timers they set, and the count it found.
NoTap == [accepted |-> 0, stats |-> 0, timers |-> 0, at |-> 0]
LogTap(t) == tap' = IF track = "haptic" THEN t ELSE tap

\* --------------------------------------------------------- updateSentence
\* The rows updateSentence writes: for each sentence id its text and the
\* category ids of its sentence_categories rows.
Texts == {"a", "b"}
LinkCats == {1, 2}
\* An id with no row: the sentence was deleted elsewhere.
AbsentId == SD.id
StoredRows ==
  [id \in Ids(Catalogue[2]) |->
     [text |-> "a",
      cats |-> (CHOOSE s \in Range(Catalogue[2]) : s.id = id).cats]]
\* updateSentence(id, text, categoryIds): no call, or the request the call
\* in flight makes next ("text", "clear", "insert"), or what the last call
\* returned; before holds the rows as the call found them, n counts the
\* calls made.
NoUpdCall == [phase |-> "idle", id |-> NullId, text |-> "a", cats |-> {},
              before |-> StoredRows, n |-> 0]

\* ------------------------------------------------------------ active time
\* incrementDailyTime(secondsToAdd): no call, or the request the call in
\* flight makes next ("select", "upsert") with the seconds it was given and
\* the total it computed.
NoTimeCall == [phase |-> "idle", seconds |-> 0, total |-> 0]
\* The seconds handed to a call that has not returned.
SecondsInFlight == IF timeCall.phase = "idle" THEN 0 ELSE timeCall.seconds
Max(a, b) == IF a >= b THEN a ELSE b

\* ---------------------------------------------------------------- polling
\* The statuses the channel's subscribe callback is called with.
Statuses == {"SUBSCRIBED", "CHANNEL_ERROR", "TIMED_OUT", "CLOSED"}
\* poll: the statuses received and those of them that were errors, the
\* fetches (handleContentEvent with handleStatsEvent) polling made, and the
\* timers set after unsubscribe ran.
NoPoll == [statuses |-> 0, errors |-> 0, fetches |-> 0, late |-> 0]

\* ------------------------------------------------------------------- users
\* currentUser: null, or one of two accounts.  The sentences of the catalogue
\* are the first account's; the second account owns two sentences of its own.
NoUser == 0
UserA == 1
UserB == 2
SE == [id |-> 5, cats |-> {1}]
SF == [id |-> 6, cats |-> {}]
\* The lists syncData can return for the user logged in.
ListsOf(user) ==
  IF user = UserA THEN {Catalogue[1], Catalogue[2]}
  ELSE IF user = UserB THEN {<<>>, <<SE, SF>>}
  ELSE {<<>>}
\* The account a sentence belongs to.
Owner(sentence) == IF sentence.id \in {SE.id, SF.id} THEN UserB ELSE UserA

\* --------------------------------------------------------------------- Init
\* The state after App mounted with a user logged in and before any data
\* arrived.
MountedWith(cfg, limit) ==
  /\ currentNumber = limit
  /\ randomLimit = limit
  /\ countdownConfig = cfg
  /\ currentSentence = Null
  /\ counterMode = "down"
  /\ sessionFocusId = AllFocus
  /\ showStats = FALSE
  /\ showManage = FALSE
  /\ allSentences = <<>>
  /\ dailyStats = {}
  /\ sentenceQueue = <<>>
  /\ lastShownIdRef = NullId
  /\ isAnimatingRef = FALSE
  /\ tickTimer = "none"
  /\ dbStats = <<>>
  /\ incCalls = EmptyBag
  /\ dbContent = StoredContent
  /\ delCall = NoDelCall
  /\ sel = NoSel
  /\ win = NoWin
  /\ focusCase = NoFocusCase
  /\ modeCase = NoModeCase
  /\ loaded = FALSE
  /\ modal = FALSE
  /\ opLog = NoOpLog
  /\ batch = NoBatch
  /\ atAccept = 0
  /\ now = FirstNow
  /\ lastScrollTime = 0
  /\ touchStartY = 0
  /\ reach = NoReach
  /\ moreTimers = <<>>
  /\ tap = NoTap
  /\ currentUser = UserA
  /\ dbRows = StoredRows
  /\ updCall = NoUpdCall
  /\ dailyTime = 0
  /\ unsyncedTime = 0
  /\ timeCall = NoTimeCall
  /\ counted = 0
  /\ pollingInterval = "null"
  /\ pollTimers = 0
  /\ unsubscribed = FALSE
  /\ poll = NoPoll
  /\ statLog = NoStatLog
  /\ incLog = NoIncLog

Mounted == MountedWith(Cfg(InitialNumber), InitialNumber)

Init ==
  /\ Mounted
  /\ track = "none"
  /\ streak = NoStreak

\* ------------------------------------------------------------------ actions
\* A task of the session other than a tick: the session becomes st.
SessionTask(st, fc, mc) ==
  /\ Becomes(st)
  /\ LogStreak(FreshStreak(st, tickTimer))
  /\ LogLoaded(st)
  /\ LogFocusCase(fc)
  /\ LogModeCase(mc)
  /\ UNCHANGED <<gateVars, track, sel, win, modal, statLog, incLog, opLog,
      batch, atAccept, extVars>>

Picked(st) == [NoFocusCase EXCEPT !.picked = st.picked]

\* A raw input event (click, space, wheel flick, swipe) reaches
\* handleInteraction and is accepted: the stat call is issued, the lock is
\* taken and the timer is set.
handleInteraction ==
  /\ ~Blocked
  /\ counterMode = "up" => currentNumber < MaxCount
  /\ isAnimatingRef' = TRUE
  /\ tickTimer' = counterMode
  /\ LogStat([made |-> TRUE, shown |-> currentSentence.id,
              calls |-> IssuedCalls(currentSentence)])
  /\ LogWin(IF tickTimer # "none"
            THEN [win EXCEPT !.accepted = @ + 1,
                             !.stats = @ + Len(IssuedCalls(currentSentence))]
            ELSE [extra |-> FALSE, accepted |-> 1,
                  stats |-> Len(IssuedCalls(currentSentence)), fires |-> 0,
                  shown |-> currentSentence # Null])
  /\ UNCHANGED <<sessionVars, showStats, showManage, track, sel, streak,
                 focusCase, modeCase, loaded, modal, incLog>>
  /\ LogOp([opLog EXCEPT !.ticked = (opLog.op # "none")])
  /\ LogBatch(BatchAfterIssue(IssuedCalls(currentSentence)))
  /\ LogAccept(currentNumber)

\* The session's side of an accepted tick.  incrementStat is fire-and-forget
\* and the session reads nothing it writes; TickAcceptedStore adds the
\* store's side.
TickAccepted == handleInteraction /\ UNCHANGED <<storeVars, extVars>>

\* handleInteraction returns at its first line.
handleInteractionReturns ==
  /\ Blocked
  /\ LogWin(IF isAnimatingRef THEN [win EXCEPT !.extra = TRUE] ELSE win)
  /\ LogModal(modal \/ showStats \/ showManage)
  /\ UNCHANGED <<sessionVars, gateVars, storeVars, track, sel, streak,
                 focusCase, modeCase, loaded, statLog, incLog, opLog,
      batch, atAccept>>

\* A raw input event reaches handleInteraction and is dropped.
TickDropped == handleInteractionReturns /\ UNCHANGED extVars

\* The listener's call handleInteraction(): accepted, or returned from.
CallInteraction ==
  /\ handleInteraction \/ handleInteractionReturns
  /\ UNCHANGED storeVars

\* window keydown
handleKeyDown ==
  \E target \in Targets : \E code \in KeyCodes :
    IF target = "INPUT" \/ target = "TEXTAREA" THEN UNCHANGED vars
    ELSE IF code = "Space"
    THEN /\ CallInteraction
         /\ LogReach([reach EXCEPT !.kind = "key", !.arg = 0, !.target = target,
                                   !.locked = isAnimatingRef])
         /\ UNCHANGED <<inputVars, hapticVars, restVars>>
    ELSE UNCHANGED vars

\* A faulty wheel listener: no cooldown.
handleWheelUnthrottled ==
  \E deltaY \in WheelDeltas :
    IF deltaY < -10
    THEN /\ lastScrollTime' = now
         /\ CallInteraction
         /\ LogReach(ScrollReach("wheel", deltaY))
         /\ UNCHANGED <<now, touchStartY, hapticVars, restVars>>
    ELSE UNCHANGED vars
\* window wheel
handleWheel ==
  \E deltaY \in WheelDeltas :
    IF now - lastScrollTime < CooldownMs THEN UNCHANGED vars
    ELSE IF deltaY < -10
    THEN /\ lastScrollTime' = now
         /\ CallInteraction
         /\ LogReach(ScrollReach("wheel", deltaY))
         /\ UNCHANGED <<now, touchStartY, hapticVars, restVars>>
    ELSE UNCHANGED vars

\* window touchstart
handleTouchStart ==
  \E clientY \in TouchYs :
    /\ touchStartY' = clientY
    /\ LogReach([reach EXCEPT !.start = clientY])
    /\ UNCHANGED <<sessionVars, gateVars, storeVars, histVars, now,
                   lastScrollTime, hapticVars, restVars>>

\* window touchmove
handleTouchMove ==
  \E currentY \in TouchYs :
    LET diff == currentY - touchStartY IN
    IF now - lastScrollTime < CooldownMs THEN UNCHANGED vars
    ELSE IF diff < -50
    THEN /\ lastScrollTime' = now
         /\ CallInteraction
         /\ touchStartY' = currentY
         /\ LogReach(ScrollReach("touch", currentY - reach.start))
         /\ UNCHANGED <<now, hapticVars, restVars>>
    ELSE UNCHANGED vars

\* Time passes: the next reading of Date.now() is a step later.
Advance ==
  /\ now < FirstNow + MaxNow * ClockStep
  /\ now' = now + ClockStep
  /\ UNCHANGED <<sessionVars, gateVars, storeVars, histVars, lastScrollTime,
                 touchStartY, reach, hapticVars, restVars>>

\* The 250 ms timer of the accepted tick fires.
TimerFires ==
  /\ tickTimer # "none"
  /\ \E st \in timeoutBody(Session, tickTimer) :
       /\ Becomes(st)
       /\ LogStreak(StreakAfterTimer(Session, st))
       /\ LogLoaded(st)
       /\ LogFocusCase([focusCase EXCEPT !.picked = st.picked,
                                         !.superseded = FALSE])
       /\ LogModeCase(ModeCaseKept)
  /\ isAnimatingRef' = FALSE
  /\ tickTimer' = "none"
  /\ LogWin([win EXCEPT !.fires = @ + 1])
  /\ LogAccept(0)
  /\ UNCHANGED <<showStats, showManage, storeVars, track, sel, modal, statLog,
                 incLog, opLog, batch, extVars>>

\* A category button of the menu is clicked.
FocusChange ==
  /\ MenuUsable
  /\ \E id \in Filters :
       \E st \in handleFocusChange(Session, id) :
         SessionTask(st, IF id = sessionFocusId THEN focusCase
                         ELSE [picked |-> st.picked,
                               hadBag |-> Len(sentenceQueue) > 0,
                               hadTimer |-> tickTimer # "none",
                               superseded |-> (tickTimer # "none" /\ st.picked)],
                     IF id = sessionFocusId THEN ModeCaseKept ELSE NoModeCase)
  /\ UNCHANGED storeVars

\* The mode button of the menu is clicked.
ToggleMode ==
  /\ MenuUsable
  /\ \E st \in toggleMode(Session) :
       SessionTask(st, Picked(st),
                   IF counterMode = "down"
                   THEN [up |-> currentSentence # Null, sent |-> currentSentence,
                         down |-> FALSE, picked |-> FALSE]
                   ELSE [NoModeCase EXCEPT !.down = TRUE, !.picked = st.picked])
  /\ UNCHANGED storeVars

\* A positive number is typed into the cycle-length input, or RND is clicked.
ConfigChange ==
  /\ MenuUsable
  /\ \E cfg \in Configs :
       \E st \in setCountdownConfig(Session, cfg) :
         SessionTask(st, Picked(st),
                     IF cfg = countdownConfig THEN ModeCaseKept ELSE NoModeCase)
  /\ UNCHANGED storeVars

\* The subscription's (or the poll's) content callback delivers a list.
ContentEvent ==
  /\ \E sents \in Snapshots :
       \E st \in setAllSentences(Session, syncData(sents, TRUE)) :
         SessionTask(st, Picked(st), ModeCaseKept)
  /\ UNCHANGED storeVars

\* The content callback when its syncData failed: onContentChange is called
\* with what syncData returned.
ContentFailure ==
  /\ \E st \in setAllSentences(Session, syncData(allSentences, FALSE)) :
       SessionTask(st, Picked(st), ModeCaseKept)
  /\ UNCHANGED storeVars

\* refreshData completes with the list syncData returned and the rows
\* getDailyStats returned.
RefreshData(sents) ==
  /\ \E st \in setAllSentences(Session, sents) :
       SessionTask(st, Picked(st), ModeCaseKept)
  /\ \E stats \in getDailyStats : dailyStats' = stats
  /\ UNCHANGED <<dbStats, incCalls, tableVars>>

Refresh == \E sents \in Snapshots : \E ok \in BOOLEAN : RefreshData(syncData(sents, ok))

\* The Logs and the manage buttons of the menu, and the overlays' Close/Done.
OpenStats ==
  /\ MenuUsable
  /\ showStats' = TRUE
  /\ UNCHANGED <<sessionVars, showManage, isAnimatingRef, tickTimer, storeVars,
                 histVars, extVars>>

OpenManage ==
  /\ MenuUsable
  /\ showManage' = TRUE
  /\ UNCHANGED <<sessionVars, showStats, isAnimatingRef, tickTimer, storeVars,
                 histVars, extVars>>

CloseOverlay ==
  /\ showStats \/ showManage
  /\ showStats' = FALSE
  /\ showManage' = FALSE
  /\ modal' = FALSE
  /\ UNCHANGED <<sessionVars, isAnimatingRef, tickTimer, storeVars, track, sel,
                 win, streak, focusCase, modeCase, loaded, statLog, incLog,
                 opLog,
      batch, atAccept, extVars>>

\* The delete button of a sentence in the manage overlay, the store's
\* deleteSentence having succeeded.  The refreshData the handler starts
\* completes as a later Refresh.
DeleteSentence ==
  /\ showManage
  /\ \E id \in Ids(allSentences) :
       \E st \in handleDeleteSentence(Session, id) :
         SessionTask(st, Picked(st), NoModeCase)
  /\ UNCHANGED storeVars

Next ==
  \/ TickAccepted
  \/ TickDropped
  \/ TimerFires
  \/ FocusChange
  \/ ToggleMode
  \/ ConfigChange
  \/ ContentEvent
  \/ ContentFailure
  \/ Refresh
  \/ OpenStats
  \/ OpenManage
  \/ CloseOverlay
  \/ DeleteSentence

\* The session, with no history recorded.
Spec == Init /\ [][Next]_vars

\* The session with one group of history variables recorded.
InitOp == Mounted /\ track = "op" /\ streak = NoStreak
SpecOp == InitOp /\ [][Next]_vars

InitFocus == Mounted /\ track = "focus" /\ streak = NoStreak
SpecFocus == InitFocus /\ [][Next]_vars

InitLock == Mounted /\ track = "lock" /\ streak = NoStreak
SpecLock == InitLock /\ [][Next]_vars

InitMode == Mounted /\ track = "mode" /\ streak = NoStreak
SpecMode == InitMode /\ [][Next]_vars

InitModal == Mounted /\ track = "modal" /\ streak = NoStreak
SpecModal == InitModal /\ [][Next]_vars

InitTick == Mounted /\ track = "tick" /\ streak = NoStreak
SpecTick == InitTick /\ [][Next]_vars

\* ------------------------------------------------ handleInteraction, nested
\* The tick timers pending, in the order they were set.
Pending == IF tickTimer = "none" THEN <<>> ELSE <<tickTimer>> \o moreTimers
SetPending(q) ==
  /\ tickTimer' = (IF q = <<>> THEN "none" ELSE Head(q))
  /\ moreTimers' = (IF q = <<>> THEN <<>> ELSE Tail(q))

\* The click events triggerHaptic's label.click() dispatches before it
\* returns: the click on the label and, by the label's activation, the click
\* on its checkbox.  The label is a descendant of the root div, whose onClick
\* is handleInteraction, so both bubble to it.
HapticClicks == <<"label", "input">>

\* A run of handleInteraction on the lock, the timers, the calls and the
\* accepted runs in g: it returns when the lock is held; else it issues the
\* incrementStat call, takes the lock and sets its timer.  (A nested run's
\* own triggerHaptic dispatches nothing: the label's click is in progress.)
NestedRun(g) ==
  IF g.lock \/ showStats \/ showManage THEN g
  ELSE [lock |-> TRUE, timers |-> Append(g.timers, counterMode),
        stats |-> g.stats + Len(IssuedCalls(currentSentence)),
        accepted |-> g.accepted + 1]
RECURSIVE NestedRuns(_, _)
NestedRuns(clicks, g) ==
  IF clicks = <<>> THEN g ELSE NestedRuns(Tail(clicks), NestedRun(g))

\* triggerHaptic(), called by handleInteraction before it takes the lock.
triggerHaptic(g) == NestedRuns(HapticClicks, g)

\* An input event reaches handleInteraction and gets past its first line:
\* with the count at 1 or below in mode down triggerHaptic is called, then
\* the incrementStat call is issued, the lock is taken and the timer is set.
InputAccepted ==
  /\ ~Blocked
  /\ LET g0 == [lock |-> isAnimatingRef, timers |-> Pending, stats |-> 0,
                accepted |-> 1]
         g1 == IF counterMode = "down" /\ currentNumber <= 1
               THEN triggerHaptic(g0) ELSE g0
         g2 == [g1 EXCEPT !.lock = TRUE,
                          !.timers = Append(@, counterMode),
                          !.stats = @ + Len(IssuedCalls(currentSentence))]
     IN /\ Len(g2.timers) <= MaxTimers + 1
        /\ isAnimatingRef' = g2.lock
        /\ SetPending(g2.timers)
        /\ LogTap([accepted |-> g2.accepted, stats |-> g2.stats,
                   timers |-> Len(g2.timers) - Len(Pending),
                   at |-> currentNumber])
  /\ UNCHANGED <<sessionVars, showStats, showManage, storeVars, histVars,
                 inputVars, reach, restVars>>

\* The timer set first fires: its callback runs and releases the lock.
TimerRuns ==
  /\ tickTimer # "none"
  /\ \E st \in timeoutBody(Session, tickTimer) : Becomes(st)
  /\ isAnimatingRef' = FALSE
  /\ SetPending(Tail(Pending))
  /\ UNCHANGED <<showStats, showManage, storeVars, histVars, inputVars, reach,
                 restVars,
                 tap>>

NextHaptic ==
  \/ InputAccepted
  \/ TickDropped
  \/ TimerRuns
  \/ ContentEvent
InitHaptic == Mounted /\ track = "haptic" /\ streak = NoStreak
SpecHaptic == InitHaptic /\ [][NextHaptic]_vars /\ WF_vars(TimerRuns)

\* The session under keys, wheel and touch gestures.
NextGesture ==
  \/ handleKeyDown
  \/ handleWheel
  \/ handleTouchStart
  \/ handleTouchMove
  \/ Advance
  \/ TimerFires
InitGesture == Mounted /\ track = "gesture" /\ streak = NoStreak
SpecGesture == InitGesture /\ [][NextGesture]_vars

\* The session mounted with countdownConfig holding any number, the config
\* effect having run on it as it does at mount.
InitLimit ==
  /\ \E cfg \in Typed :
       \E s \in EffectConfigChange([cfg |-> cfg, mode |-> "down"],
                                   [limit |-> InitialNumber, num |-> InitialNumber]) :
         MountedWith(cfg, s.limit)
  /\ track = "none"
  /\ streak = NoStreak
SpecLimit == InitLimit /\ [][Next]_vars

InitRun == Mounted /\ track = "run" /\ streak = FreshStreak(Session, "none")
SpecRun == InitRun /\ [][Next]_vars

\* ------------------------------------------------- the session and the store
\* An accepted tick with the store's side: the incrementStat calls start.
TickAcceptedStore ==
  /\ handleInteraction
  /\ BagCardinality(incCalls) + Counted < MaxCalls
  /\ incCalls' = incCalls (+) SetToBag({Call(id) : id \in Range(IssuedCalls(currentSentence))})
  /\ UNCHANGED <<dailyStats, dbStats, tableVars, extVars>>

\* incrementStat: the select of the row's count returns.
IncSelect ==
  \E c \in BagToSet(incCalls) :
    /\ c.phase = "select"
    /\ incCalls' = (incCalls (-) SetToBag({c}))
                     (+) SetToBag({[c EXCEPT !.phase = "upsert",
                                             !.existing = Count(c.id)]})
    /\ UNCHANGED <<sessionVars, gateVars, dailyStats, dbStats, tableVars,
                   histVars, extVars>>

\* incrementStat: the upsert of newCount succeeds.
IncUpsert ==
  \E c \in BagToSet(incCalls) :
    /\ c.phase = "upsert"
    /\ dbStats' = Upsert(c.id, NewCount(c.existing))
    /\ incCalls' = incCalls (-) SetToBag({c})
    /\ incLog' = [made |-> TRUE, quiet |-> c.existing = Count(c.id),
                  rise |-> NewCount(c.existing) - Count(c.id)]
    /\ UNCHANGED <<sessionVars, gateVars, dailyStats, tableVars, track, sel,
                   win, streak, focusCase, modeCase, loaded, modal, statLog,
                   opLog,
      batch, atAccept, extVars>>

\* A faulty failure path: the error reaches the tick and cancels its timer.
IncFailCancelsTick ==
  \E c \in BagToSet(incCalls) :
    /\ incCalls' = incCalls (-) SetToBag({c})
    /\ isAnimatingRef' = FALSE
    /\ tickTimer' = "none"
    /\ UNCHANGED <<sessionVars, showStats, showManage, dailyStats, dbStats,
                   tableVars, histVars, extVars>>

\* incrementStat: a request fails; the error is logged and dropped.
IncFail ==
  \E c \in BagToSet(incCalls) :
    /\ incCalls' = incCalls (-) SetToBag({c})
    /\ LogBatch(IF c.id = batch.id THEN NoBatch ELSE batch)
    /\ UNCHANGED <<sessionVars, gateVars, dailyStats, dbStats, tableVars,
                   track, sel, win, streak, focusCase, modeCase, loaded, modal,
                   statLog, incLog, opLog, atAccept, extVars>>

\* The sync interval: incrementDailyTime(seconds) upserts the time-tracker
\* row.
TimeSync ==
  /\ Count(TimeTrackerId) < MaxSeconds
  /\ \E seconds \in 1..(MaxSeconds - Count(TimeTrackerId)) :
       dbStats' = Upsert(TimeTrackerId, Count(TimeTrackerId) + seconds)
  /\ UNCHANGED <<sessionVars, gateVars, dailyStats, incCalls, tableVars,
                 histVars, extVars>>

\* The subscription's (or the poll's) stats callback.
StatsEvent ==
  /\ \E stats \in getDailyStats : dailyStats' = cleanStats(stats)
  /\ UNCHANGED <<sessionVars, gateVars, dbStats, incCalls, tableVars,
                 histVars, extVars>>

\* refreshData with the catalogue as the store holds it.
RefreshLoaded == RefreshData(Catalogue[2])

NextStats ==
  \/ TickAcceptedStore
  \/ TimerFires
  \/ RefreshLoaded
  \/ StatsEvent
  \/ IncSelect
  \/ IncUpsert
  \/ IncFail
  \/ TimeSync

InitStats == Mounted /\ track = "stats" /\ streak = NoStreak
SpecStats == InitStats /\ [][NextStats]_vars

InitBatch == Mounted /\ track = "batch" /\ streak = NoStreak
SpecBatch == InitBatch /\ [][NextStats]_vars

\* ------------------------------------------------ store errors
\* A store operation hits an error at one of its requests, and the caller in
\* App goes on with what it got: [] from syncData is given to
\* setAllSentences, [] from getDailyStats to setDailyStats, the handlers of
\* the manage overlay alert, incrementStat's caller has gone on already.  An
\* exception would end the caller there.
StoreError ==
  \E op \in StoreOps :
    \E k \in 1..Requests(op) :
      /\ LogOp([op |-> op, at |-> k, got |-> Outcome(op, k), ticked |-> FALSE])
      /\ IF op = "syncData" /\ Outcome(op, k) = "[]"
         THEN /\ \E st \in setAllSentences(Session, syncData(allSentences, FALSE)) :
                   Becomes(st)
              /\ UNCHANGED dailyStats
         ELSE IF op = "getDailyStats" /\ Outcome(op, k) = "[]"
         THEN /\ dailyStats' = {}
              /\ UNCHANGED sessionVars
         ELSE UNCHANGED <<sessionVars, dailyStats>>
      /\ UNCHANGED <<gateVars, dbStats, incCalls, tableVars, track, sel, win,
                     streak, focusCase, modeCase, loaded, modal, statLog, incLog,
                     batch, atAccept, extVars>>

NextErr ==
  \/ TickAccepted
  \/ TickDropped
  \/ TimerFires
  \/ ContentEvent
  \/ OpenStats
  \/ OpenManage
  \/ CloseOverlay
  \/ StoreError

InitErr == Mounted /\ track = "err" /\ streak = NoStreak
SpecErr == InitErr /\ [][NextErr]_vars

\* ------------------------------------------------ deleteSentence in steps
\* The delete button of the manage overlay, confirmed: deleteSentence(id)
\* starts.
DelStart ==
  /\ showManage
  /\ delCall.phase \in {"idle", "success", "failure"}
  /\ delCall.n < MaxDeletes
  /\ \E id \in Ids(allSentences) :
       delCall' = [phase |-> "links", id |-> id, n |-> delCall.n + 1]
  /\ UNCHANGED <<sessionVars, gateVars, dailyStats, dbStats, incCalls,
                 dbContent, histVars, extVars>>

\* 1. Delete associated category links
DelLinks ==
  /\ delCall.phase = "links"
  /\ dbContent' = [dbContent EXCEPT !.links = @ \ {delCall.id}]
  /\ delCall' = [delCall EXCEPT !.phase = "stats"]
  /\ UNCHANGED <<sessionVars, gateVars, dailyStats, dbStats, incCalls, histVars, extVars>>

\* 2. Delete associated daily stats
DelStats ==
  /\ delCall.phase = "stats"
  /\ dbStats' = WithoutRow(delCall.id)
  /\ delCall' = [delCall EXCEPT !.phase = "sentence"]
  /\ UNCHANGED <<sessionVars, gateVars, dailyStats, incCalls, dbContent,
                 histVars, extVars>>

\* 3. Delete the sentence; deleteSentence returns success and
\* handleDeleteSentence updates the session.  With no row deleted the call
\* returns the failure "Sentence not found".
DelSentence ==
  /\ delCall.phase = "sentence"
  /\ IF delCall.id \in dbContent.sentences
     THEN /\ dbContent' = [dbContent EXCEPT !.sentences = @ \ {delCall.id}]
          /\ delCall' = [delCall EXCEPT !.phase = "success"]
          /\ \E st \in handleDeleteSentence(Session, delCall.id) :
               SessionTask(st, Picked(st), NoModeCase)
     ELSE /\ delCall' = [delCall EXCEPT !.phase = "failure"]
          /\ UNCHANGED <<sessionVars, gateVars, dbContent, histVars, extVars>>
  /\ UNCHANGED <<dailyStats, dbStats, incCalls>>

\* A request of deleteSentence fails: the call returns {success: false} and
\* handleDeleteSentence alerts.
DelFail ==
  /\ delCall.phase \in {"links", "stats", "sentence"}
  /\ delCall' = [delCall EXCEPT !.phase = "failure"]
  /\ UNCHANGED <<sessionVars, gateVars, dailyStats, dbStats, incCalls,
                 dbContent, histVars, extVars>>

\* refreshData with the list as the store's rows give it.
RefreshStored == RefreshData(StoredList)

NextDelete ==
  \/ TickAcceptedStore
  \/ TimerFires
  \/ RefreshStored
  \/ IncSelect
  \/ IncUpsert
  \/ IncFail
  \/ OpenManage
  \/ CloseOverlay
  \/ DelStart
  \/ DelLinks
  \/ DelStats
  \/ DelSentence
  \/ DelFail

SpecDelete == Init /\ [][NextDelete]_vars

\* ------------------------------------------- the session under any content
\* The content callback delivers any list of the catalogue, among them the
\* list in which the category filter matches a single sentence.
ContentArrives ==
  /\ \E i \in 1..Len(Catalogue) :
       \E st \in setAllSentences(Session, syncData(Catalogue[i], TRUE)) :
         SessionTask(st, Picked(st), ModeCaseKept)
  /\ UNCHANGED storeVars

NextRepeat ==
  \/ TickAccepted
  \/ TimerFires
  \/ FocusChange
  \/ ToggleMode
  \/ ContentArrives

SpecRepeat == Init /\ [][NextRepeat]_vars

\* ------------------------------------------------ updateSentence in steps
otherThanUpd == <<sessionVars, gateVars, storeVars, histVars, inputVars, reach,
                  hapticVars, currentUser, timeVars, pollVars>>

\* The edit form of the manage overlay is saved: updateSentence starts.
UpdStart ==
  /\ updCall.phase \in {"idle", "success", "failure"}
  /\ updCall.n < MaxUpdates
  /\ \E id \in DOMAIN dbRows \cup {AbsentId}, text \in Texts,
        categoryIds \in SUBSET LinkCats :
       updCall' = [phase |-> "text", id |-> id, text |-> text,
                   cats |-> categoryIds, before |-> dbRows,
                   n |-> updCall.n + 1]
  /\ UNCHANGED <<dbRows, otherThanUpd>>

\* 1. Update text; with no row updated the call throws "Sentence not found".
UpdText ==
  /\ updCall.phase = "text"
  /\ IF updCall.id \in DOMAIN dbRows
     THEN /\ dbRows' = [dbRows EXCEPT ![updCall.id].text = updCall.text]
          /\ updCall' = [updCall EXCEPT !.phase = "clear"]
     ELSE /\ updCall' = [updCall EXCEPT !.phase = "failure"]
          /\ UNCHANGED dbRows
  /\ UNCHANGED otherThanUpd

\* 2. Clear existing categories for this sentence; with no category given
\* the call goes on to syncData and returns success.
UpdClear ==
  /\ updCall.phase = "clear"
  /\ dbRows' = [dbRows EXCEPT ![updCall.id].cats = {}]
  /\ updCall' = [updCall EXCEPT
                   !.phase = IF updCall.cats = {} THEN "success" ELSE "insert"]
  /\ UNCHANGED otherThanUpd

\* 3. Insert new categories; the call returns success.
UpdInsert ==
  /\ updCall.phase = "insert"
  /\ dbRows' = [dbRows EXCEPT ![updCall.id].cats = updCall.cats]
  /\ updCall' = [updCall EXCEPT !.phase = "success"]
  /\ UNCHANGED otherThanUpd

\* A request of updateSentence fails: the error is thrown, caught, and the
\* call returns {success: false}.
UpdFail ==
  /\ updCall.phase \in {"text", "clear", "insert"}
  /\ updCall' = [updCall EXCEPT !.phase = "failure"]
  /\ UNCHANGED <<dbRows, otherThanUpd>>

NextUpdate ==
  \/ UpdStart
  \/ UpdText
  \/ UpdClear
  \/ UpdInsert
  \/ UpdFail

SpecUpdate == Init /\ [][NextUpdate]_vars

\* ------------------------------------------------------ active time in steps
otherThanTime == <<sessionVars, gateVars, dailyStats, incCalls, tableVars,
                   histVars, inputVars, reach, hapticVars, currentUser,
                   updVars, pollVars>>

\* The 1 s interval finds the user active.
ActivityTick ==
  /\ counted < MaxActive
  /\ dailyTime' = dailyTime + 1
  /\ unsyncedTime' = unsyncedTime + 1
  /\ counted' = counted + 1
  /\ UNCHANGED <<timeCall, dbStats, otherThanTime>>

\* The sync interval finds seconds to send: setUnsyncedTime(0) and
\* incrementDailyTime(timeToSend) starts.  A call returns before the interval
\* fires again.
SyncStart ==
  /\ unsyncedTime > 0
  /\ timeCall.phase = "idle"
  /\ timeCall' = [phase |-> "select", seconds |-> unsyncedTime, total |-> 0]
  /\ unsyncedTime' = 0
  /\ UNCHANGED <<dailyTime, counted, dbStats, otherThanTime>>

\* The select of the time-tracker row returns; its error is not looked at,
\* so that a failed select counts as no row.
TimeSelect ==
  /\ timeCall.phase = "select"
  /\ \E existing \in {Count(TimeTrackerId), 0} :
       timeCall' = [timeCall EXCEPT !.phase = "upsert",
                                    !.total = existing + timeCall.seconds]
  /\ UNCHANGED <<dailyTime, unsyncedTime, counted, dbStats, otherThanTime>>

\* The upsert succeeds: the call returns newTotal and the interval's callback
\* sets dailyTime to it.
TimeUpsert ==
  /\ timeCall.phase = "upsert"
  /\ dbStats' = Upsert(TimeTrackerId, timeCall.total)
  /\ dailyTime' = (IF timeCall.total > 0 THEN timeCall.total ELSE dailyTime)
  /\ timeCall' = NoTimeCall
  /\ UNCHANGED <<unsyncedTime, counted, otherThanTime>>

\* getCurrentUser or the upsert fails: the call returns 0.
TimeFail ==
  /\ timeCall.phase \in {"select", "upsert"}
  /\ timeCall' = NoTimeCall
  /\ UNCHANGED <<dailyTime, unsyncedTime, counted, dbStats, otherThanTime>>

\* The subscription's time callback with the stored total.
TimeEvent ==
  /\ dailyTime' = Max(dailyTime, Count(TimeTrackerId))
  /\ UNCHANGED <<unsyncedTime, timeCall, counted, dbStats, otherThanTime>>

NextTime ==
  \/ ActivityTick
  \/ SyncStart
  \/ TimeSelect
  \/ TimeUpsert
  \/ TimeFail
  \/ TimeEvent

SpecTime == Init /\ [][NextTime]_vars

\* ------------------------------------------------- subscribeToChanges
otherThanPoll == <<sessionVars, gateVars, storeVars, histVars, inputVars, reach,
                   hapticVars, currentUser, updVars, timeVars>>

\* startPolling on (pollingInterval, timers): fetch once and set the interval
\* unless pollingInterval is set.
startPolling(p) ==
  IF p.interval # "null" THEN [p EXCEPT !.fetched = 0]
  ELSE [interval |-> "set", timers |-> p.timers + 1, fetched |-> 1]

\* The channel calls the subscribe callback with a status, before or after
\* unsubscribe ran.
Status ==
  /\ poll.statuses < MaxStatuses
  /\ \E status \in Statuses :
       LET error == status \in {"CHANNEL_ERROR", "TIMED_OUT"}
           p0 == [interval |-> pollingInterval, timers |-> pollTimers,
                  fetched |-> 0]
           p == IF error THEN startPolling(p0) ELSE p0
       IN /\ pollingInterval' = p.interval
          /\ pollTimers' = p.timers
          /\ poll' = [statuses |-> poll.statuses + 1,
                      errors |-> poll.errors + (IF error THEN 1 ELSE 0),
                      fetches |-> poll.fetches + p.fetched,
                      late |-> poll.late +
                               (IF unsubscribed THEN p.timers - pollTimers ELSE 0)]
  /\ UNCHANGED <<unsubscribed, otherThanPoll>>

\* The polling interval fires: handleContentEvent and handleStatsEvent.
PollFires ==
  /\ pollTimers > 0
  /\ poll.fetches < MaxPolls
  /\ poll' = [poll EXCEPT !.fetches = @ + 1]
  /\ UNCHANGED <<pollingInterval, pollTimers, unsubscribed, otherThanPoll>>

\* The function subscribeToChanges returned: removeChannel, and
\* clearInterval when pollingInterval is set.
Unsubscribe ==
  /\ ~unsubscribed
  /\ unsubscribed' = TRUE
  /\ pollTimers' = (IF pollingInterval # "null" THEN pollTimers - 1 ELSE pollTimers)
  /\ UNCHANGED <<pollingInterval, poll, otherThanPoll>>

NextPoll ==
  \/ Status
  \/ PollFires
  \/ Unsubscribe

SpecPoll == Init /\ [][NextPoll]_vars

\* ------------------------------------------------------- logout and login
\* handleLogout after signOut resolved: setCurrentUser(null),
\* setAllSentences([]), setShowManage(false).
handleLogout(st) == Commit(st, [st EXCEPT !.sents = <<>>], TRUE)

\* The Sign Out button of the menu.
Logout ==
  /\ currentUser # NoUser
  /\ MenuUsable
  /\ \E st \in handleLogout(Session) : Becomes(st)
  /\ showManage' = FALSE
  /\ currentUser' = NoUser
  /\ UNCHANGED <<showStats, isAnimatingRef, tickTimer, storeVars, histVars,
                 inputVars, reach, hapticVars, serviceVars>>

\* AuthScreen's onLogin: getCurrentUser().then(setCurrentUser).
Login ==
  /\ currentUser = NoUser
  /\ currentUser' \in {UserA, UserB}
  /\ UNCHANGED <<sessionVars, gateVars, storeVars, histVars, inputVars, reach,
                 hapticVars, serviceVars>>

\* refreshData or the subscription's content callback delivers a list of
\* the user logged in.
UserContent ==
  /\ currentUser # NoUser
  /\ \E sents \in ListsOf(currentUser) :
       \E st \in setAllSentences(Session, syncData(sents, TRUE)) :
         SessionTask(st, Picked(st), ModeCaseKept)
  /\ UNCHANGED storeVars

\* The root div and the listeners exist only while a user is logged in.
UserTick == currentUser # NoUser /\ TickAccepted
UserFocusChange == currentUser # NoUser /\ FocusChange

NextLogout ==
  \/ Logout
  \/ Login
  \/ UserContent
  \/ UserTick
  \/ UserFocusChange
  \/ TimerFires

SpecLogout == Init /\ [][NextLogout]_vars

\* ------------------------------------------------------ the selector alone
\* The selector's refs under the calls the session makes of it, from any
\* list, filter and bag the session can give it.
selVars == <<allSentences, sessionFocusId, sentenceQueue, lastShownIdRef, sel>>
nonSelVars == <<currentNumber, randomLimit, countdownConfig, currentSentence,
                counterMode, gateVars, storeVars, track, win, streak,
                focusCase, modeCase, loaded, modal, statLog, incLog, opLog,
      batch, atAccept, extVars>>

\* A call getNextSentence(sessionFocusId), as resetCycle and the terminal
\* tick make it.
SelDraw ==
  /\ \E o \in getNextSentence(allSentences, sessionFocusId, sentenceQueue,
                              lastShownIdRef) :
       /\ sentenceQueue' = o.queue
       /\ lastShownIdRef' = o.last
       /\ sel' = [SelAfterCall(sel, o, lastShownIdRef,
                               Len(Relevant(allSentences, sessionFocusId)))
                    EXCEPT !.call.bag = Len(sentenceQueue)]
  /\ UNCHANGED <<allSentences, sessionFocusId, nonSelVars>>

\* handleFocusChange(id) and the call the focus effect's resetCycle makes.
SelFocus ==
  /\ \E id \in Filters \ {sessionFocusId} :
       /\ sessionFocusId' = id
       /\ IF Len(allSentences) > 0
          THEN \E o \in getNextSentence(allSentences, id, <<>>, lastShownIdRef) :
                 /\ sentenceQueue' = o.queue
                 /\ lastShownIdRef' = o.last
                 /\ sel' = SelAfterCall(SelClosed(sel), o, lastShownIdRef,
                                        Len(Relevant(allSentences, id)))
          ELSE /\ sentenceQueue' = <<>>
               /\ sel' = SelClosed(sel)
               /\ UNCHANGED lastShownIdRef
  /\ UNCHANGED <<allSentences, nonSelVars>>

\* setAllSentences: a list arrives, or a sentence is deleted from the list.
SelContent ==
  /\ \E sents \in Snapshots \cup
                 {SelectSeq(allSentences, LAMBDA s : s.id # id) :
                    id \in Ids(allSentences)} :
       allSentences' = sents
  /\ sel' = SelClosed(sel)
  /\ UNCHANGED <<sessionFocusId, sentenceQueue, lastShownIdRef, nonSelVars>>

NextSel ==
  \/ SelDraw
  \/ SelFocus
  \/ SelContent

InitSel == Mounted /\ track = "sel" /\ streak = NoStreak
SpecSel == InitSel /\ [][NextSel]_vars

\* --------------------------------------------------------------- properties
\* C1 (coverage): while neither the list nor the filter changes, the calls of
\* getNextSentence that start with a refilling call return pairwise different
\* sentences, and the N-th of them completes the relevant set: every relevant
\* sentence has been returned exactly once.
Coverage ==
  sel.open =>
    /\ \A i, j \in 1..Len(sel.ids) : i # j => sel.ids[i] # sel.ids[j]
    /\ Len(sel.ids) = sel.n =>
         {sel.ids[i] : i \in 1..Len(sel.ids)}
           = Ids(Relevant(allSentences, sessionFocusId))
\* A cycle over three relevant sentences has just been completed.
CoverageWitness ==
  sel.open /\ sel.n = 3 /\ Len(sel.ids) = sel.n

\* C2 (no immediate repeat): a call of getNextSentence that refills the bag
\* from more than one relevant sentence returns a sentence whose id differs
\* from lastShownIdRef as it was before the call.
NoImmediateRepeat ==
  sel.call.made /\ sel.call.refilled /\ sel.call.n > 1
    => sel.call.id # sel.call.prevLast
\* A refill happened while the sentence shown last was still relevant, so
\* that the shuffle could have put it next.
NoImmediateRepeatWitness ==
  /\ sel.call.made /\ sel.call.refilled /\ sel.call.n > 1
  /\ sel.call.prevLast \in Ids(Relevant(allSentences, sessionFocusId))

\* C3 (filter isolation): a result of getNextSentence that a reset or a
\* terminal tick committed as currentSentence is null or a sentence of the
\* list that matches the filter in force.
FilterIsolation ==
  focusCase.picked =>
    \/ currentSentence = Null
    \/ /\ Matches(currentSentence, sessionFocusId)
       /\ currentSentence.id \in Ids(Relevant(allSentences, sessionFocusId))
\* The filter was changed to a category while the bag was non-empty and a
\* tick's timer was pending, and that timer's terminal tick has since
\* committed a sentence.
FilterIsolationWitness ==
  /\ focusCase.picked /\ focusCase.hadBag /\ focusCase.hadTimer
  /\ tickTimer = "none"
  /\ sessionFocusId # AllFocus
  /\ currentSentence # Null

\* C4 (lock): of the runs of handleInteraction that one input event causes
\* and that a second event arriving while the lock is held could add to,
\* one gets past the first line, at most one incrementStat call is issued
\* and one timer is set.
OneTickPerInput ==
  tap.accepted <= 1 /\ tap.stats <= 1 /\ tap.timers <= 1

\* C5 (terminal transition): in a countdown run of fixed length L started
\* at the count L, after k < L ticks the count is L - k, getNextSentence has
\* not been called and the sentence is the one the run started with; after
\* the L-th tick the count is L again and getNextSentence has been called
\* exactly once.
TerminalTransition ==
  streak.k >= 0 =>
    /\ streak.k < streak.len =>
         /\ currentNumber = streak.len - streak.k
         /\ currentSentence = streak.sent
         /\ streak.draws = 0
    /\ streak.k = streak.len =>
         /\ currentNumber = streak.len
         /\ streak.draws = 1

\* C6 (countdown range): in mode down the count is between 1 and the
\* committed cycle length; in either mode it is at least 1.
CountdownRange ==
  /\ counterMode = "down" => 1 <= currentNumber /\ currentNumber <= randomLimit
  /\ currentNumber >= 1

SentinelExclusion ==
  \A r \in dailyStats : r.sentence_id # TimeTrackerId

\* C9 (refresh keeps the display): once a sentence has been displayed, a
\* content callback or a completing refreshData changes neither
\* currentSentence nor currentNumber.
RefreshKeepsDisplay ==
  [][loaded /\ (ContentEvent \/ Refresh)
       => currentSentence' = currentSentence /\ currentNumber' = currentNumber]_vars

\* C10 (a filter change supersedes the tick in flight): when the timer of a
\* tick fires after a filter change reset the cycle while it was pending, it
\* changes neither currentNumber nor currentSentence.
FilterChangeSupersedes ==
  [][focusCase.superseded /\ TimerFires
       => currentNumber' = currentNumber /\ currentSentence' = currentSentence]_vars

\* C11 (a cycle-length change is a full reset): when the configured cycle
\* length changes while sentences are loaded, a limit of the new
\* configuration is committed, a result of getNextSentence is committed as
\* currentSentence and currentNumber is reseeded (the limit in mode down, 1
\* in mode up).
ConfigChangeResets ==
  [][ConfigChange /\ countdownConfig' # countdownConfig /\ Len(allSentences) > 0
       => /\ focusCase'.picked
          /\ randomLimit' \in getNextLimit(countdownConfig')
          /\ currentNumber' = (IF counterMode = "down" THEN randomLimit' ELSE 1)]_vars

\* C12 (mode toggle): a toggle to mode down commits a limit of the
\* configuration, a result of getNextSentence and the limit as the count; a
\* toggle to mode up commits the count 1 and leaves the sentence; the
\* sentence displayed at a toggle to mode up stays until a filter change, a
\* cycle-length change, a toggle or its deletion.
ModeToggle ==
  /\ modeCase.down =>
       /\ modeCase.picked /\ counterMode = "down"
       /\ randomLimit \in getNextLimit(countdownConfig)
       /\ currentNumber = randomLimit
  /\ modeCase.up => currentSentence = modeCase.sent

\* C13 (count-up): the timer callback of a tick accepted in mode up raises
\* currentNumber by exactly 1, whatever the cycle length, and changes
\* neither currentSentence nor randomLimit.
CountUp ==
  [][TimerFires /\ tickTimer = "up"
       => /\ currentNumber' = currentNumber + 1
          /\ currentSentence' = currentSentence
          /\ randomLimit' = randomLimit]_vars
\* After a toggle to mode up (count 1) and no reset since, a tick has raised
\* the count above the cycle length with the sentence still displayed.
CountUpWitness ==
  /\ modeCase.up /\ counterMode = "up" /\ tickTimer = "none"
  /\ currentSentence = modeCase.sent
  /\ currentNumber = 2 /\ randomLimit = 1

\* C14 (idempotent empty state): while no sentence matches the filter and
\* none is displayed, every step leaves currentSentence null; a tick accepted
\* then issues no incrementStat call, its timer callback has an outcome (no
\* exception) and releases the lock.
NothingRelevant ==
  Len(Relevant(allSentences, sessionFocusId)) = 0 /\ currentSentence = Null
EmptyStateIdempotent ==
  [][NothingRelevant /\ Len(Relevant(allSentences', sessionFocusId')) = 0
       => /\ currentSentence' = Null
          /\ tickTimer # "none" => timeoutBody(Session, tickTimer) # {}
          /\ handleInteraction => win'.stats = 0 /\ isAnimatingRef'
          /\ TimerFires => ~isAnimatingRef' /\ tickTimer' = "none"]_vars
\* Sentences are loaded, none matches the filter, and a tick accepted with
\* nothing displayed has run its callback: nothing is displayed, no call was
\* issued and the lock is free.
EmptyStateIdempotentWitness ==
  /\ Len(allSentences) > 0 /\ NothingRelevant
  /\ win.accepted = 1 /\ ~win.shown /\ win.stats = 0 /\ win.fires = 1
  /\ ~isAnimatingRef

\* C15  Modal suppression.  While the stats overlay or the manage overlay is
\* open no input event is accepted as a tick (no step is a step of
\* handleInteraction, where the lock is taken, the timer is set and
\* incrementStat is called), and an input event that arrives leaves the
\* count, the sentence, the bag, lastShownId, the lock, the timer and the
\* store as they were.
ModalSuppression ==
  [][showStats \/ showManage
       => /\ ~handleInteraction
          /\ TickDropped => UNCHANGED <<sessionVars, gateVars, storeVars>>]_vars

\* An event was dropped by the open stats overlay alone: a sentence is
\* displayed, the lock is free and no timer is pending.
ModalSuppressionWitness ==
  /\ modal /\ showStats /\ ~isAnimatingRef /\ tickTimer = "none"
  /\ currentSentence # Null /\ currentNumber = 2

ConfigNormalization ==
  /\ randomLimit >= 1
  /\ ~countdownConfig.random =>
       randomLimit = (IF countdownConfig.nan \/ countdownConfig.n <= 0
                      THEN 3 ELSE countdownConfig.n)
  /\ \A val \in Configs : val.random \/ (~val.nan /\ val.n >= 1)

\* With countdownConfig 0 a countdown has run to its terminal tick: the bag
\* shows that the displayed sentence is not the first drawn, and the count
\* is back at the limit, 3.
ConfigNormalizationWitness ==
  /\ countdownConfig = Cfg(0) /\ counterMode = "down"
  /\ currentSentence # Null /\ tickTimer = "none"
  /\ Len(Relevant(allSentences, sessionFocusId)) = 3 /\ Len(sentenceQueue) = 1
  /\ randomLimit = 3 /\ currentNumber = 3

\* C18  Stats failure does not roll back.  A failing incrementStat call
\* changes neither the session nor the lock and the timer; whatever calls are
\* outstanding, failed or written, a pending timer callback has an outcome,
\* and when it runs the count advances (one down, one up) or the cycle
\* resets to the new limit, and the lock is released.
StatsFailureNoRollback ==
  [][/\ IncFail => UNCHANGED <<sessionVars, gateVars>>
     /\ tickTimer # "none" => timeoutBody(Session, tickTimer) # {}
     /\ tickTimer # "none" /\ tickTimer' = "none"
          => /\ ~isAnimatingRef'
             /\ IF tickTimer = "up" THEN currentNumber' = currentNumber + 1
                ELSE IF currentNumber > 1 THEN currentNumber' = currentNumber - 1
                ELSE currentNumber' = randomLimit']_vars

\* A tick was accepted on a displayed sentence, every incrementStat call for
\* that sentence has failed (calls were issued, none is outstanding and the
\* sentence has no row), and the tick has moved the count from 3 to 2 and
\* released the lock.
StatsFailureNoRollbackWitness ==
  /\ statLog.made /\ statLog.shown # NullId /\ statLog.calls = <<statLog.shown>>
  /\ incCalls = EmptyBag /\ Count(statLog.shown) = 0
  /\ tickTimer = "none" /\ ~isAnimatingRef
  /\ currentSentence.id = statLog.shown /\ currentNumber = 2

\* C19  Transient fetch failure is a no-op.  A content callback whose
\* syncData failed leaves allSentences, the displayed sentence and the
\* selector's bag and lastShownId as they were.
FetchFailureNoOp ==
  [][ContentFailure
       => UNCHANGED <<allSentences, currentSentence, sentenceQueue,
                      lastShownIdRef>>]_vars

\* C20  Selection invariant.  Whenever a step commits a new value to
\* currentSentence, the value is null or a sentence of the list committed
\* with it that matches the filter committed with it.
SelectionInvariant ==
  [][currentSentence' # currentSentence /\ currentSentence' # Null
       => Len(Relevant(<<currentSentence'>>, sessionFocusId')) = 1
          /\ currentSentence' \in Range(allSentences')]_vars

\* C21  Delete cascade.  When deleteSentence(id) returns success the store
\* holds no category link, no daily_stats row and no sentence row of id; and
\* the links are gone when the stats are deleted, the stats when the
\* sentence is.
DeleteCascade ==
  [][/\ delCall'.phase = "success" /\ delCall.phase # "success"
          => /\ delCall'.id \notin dbContent'.links
             /\ delCall'.id \notin DOMAIN dbStats'
             /\ delCall'.id \notin dbContent'.sentences
     /\ delCall.phase = "stats" /\ delCall'.phase = "sentence"
          => delCall.id \notin dbContent.links
     /\ delCall.phase = "sentence" /\ delCall'.phase = "success"
          => delCall.id \notin DOMAIN dbStats]_vars

\* C22  Error containment.  A store operation that hits a store error at any
\* of its requests gives its caller a value, never an exception; and after
\* the error the gate is as before: with no overlay open and no timer
\* pending the next input event is accepted as a tick.
ErrorContainment ==
  opLog.op # "none" =>
    /\ opLog.got \in {"[]", "{data: null, error}", "{success: false, error}",
                       "void"}
    /\ MenuUsable /\ tickTimer = "none" => ~Blocked

\* The first request (getSession) of updateSentence failed, the caller got
\* {success: false, error}, and a tick accepted since then has run its timer
\* callback.
ErrorContainmentWitness ==
  /\ opLog.op = "updateSentence" /\ opLog.at = 1
  /\ opLog.got = "{success: false, error}"
  /\ opLog.ticked /\ tickTimer = "none" /\ ~isAnimatingRef
  /\ currentSentence # Null /\ currentNumber = 2

SingleShortCircuit ==
  [][SelDraw /\ Len(Relevant(allSentences, sessionFocusId)) = 1
       => /\ sel'.call.id = Relevant(allSentences, sessionFocusId)[1].id
          /\ ~sel'.call.refilled
          /\ sentenceQueue' = sentenceQueue]_vars

\* The latest call found one relevant sentence and returned it; the bag, in
\* which a deletion had left two entries, still holds them.
SingleShortCircuitWitness ==
  /\ sel.call.made /\ sel.call.n = 1 /\ ~sel.call.refilled
  /\ Len(Relevant(allSentences, sessionFocusId)) = 1
  /\ sel.call.id = Relevant(allSentences, sessionFocusId)[1].id
  /\ Len(sentenceQueue) = 2

\* C25  Stale references never surface and selection terminates.  Whatever
\* the bag holds, a call of getNextSentence made while some sentence matches
\* the filter has an outcome and returns a sentence whose id is in the
\* relevant set; and a bag refilled from the relevant set is never exhausted
\* by the validate loop, so that the call a recursion makes does not recurse.
StaleNeverSurface ==
  [][LET relevant == Relevant(allSentences, sessionFocusId) IN
     Len(relevant) > 0
       => /\ getNextSentence(allSentences, sessionFocusId, sentenceQueue,
                             lastShownIdRef) # {}
          /\ SelDraw => sel'.call.id \in Ids(relevant)
          /\ \A q \in Refill(relevant, lastShownIdRef) :
               ~Validate(Last(q), Front(q), relevant).exhausted]_vars

\* The latest call found a bag that held stale entries only: it discarded
\* them, refilled, and returned one of the two relevant sentences.
StaleNeverSurfaceWitness ==
  /\ sel.call.made /\ sel.call.bag > 0 /\ sel.call.refilled /\ sel.call.n = 2
  /\ sel.call.id \in Ids(Relevant(allSentences, sessionFocusId))
  /\ Len(sentenceQueue) = 1

\* C26  lastShownId tracks the display: in every reachable state where a
\* sentence is displayed, lastShownIdRef holds the id of that sentence.
LastShownTracksDisplay ==
  currentSentence # Null => lastShownIdRef = currentSentence.id

\* C27  Idle to Counting.  When a sentence list arrives (the content callback
\* or refreshData) while no sentence is displayed and the list is non-empty,
\* resetCycle runs with the current mode and filter: a limit of the
\* configuration, an outcome of getNextSentence on the new list and the count
\* seeded by the mode are committed.  When a list arrives while a sentence is
\* displayed, resetCycle does not run: sentence, count, limit, bag and
\* lastShownIdRef stay as they were.
IdleToCounting ==
  [][\/ /\ currentSentence = Null /\ Len(allSentences') > 0
          => \E newLimit \in getNextLimit(countdownConfig) :
             \E o \in getNextSentence(allSentences', sessionFocusId,
                                      sentenceQueue, lastShownIdRef) :
               /\ randomLimit' = newLimit
               /\ currentSentence' = o.next
               /\ currentNumber' = IF counterMode = "down" THEN newLimit ELSE 1
               /\ sentenceQueue' = o.queue
               /\ lastShownIdRef' = o.last
        /\ currentSentence # Null
          => UNCHANGED <<currentSentence, currentNumber, randomLimit,
                         sentenceQueue, lastShownIdRef>>
     \/ ~(ContentEvent \/ ContentFailure \/ Refresh)]_vars

\* The first list put a sentence on display, a tick was counted on it, and a
\* list that arrived later (an empty one) left the display as it was.
IdleToCountingWitness ==
  /\ currentSentence # Null /\ allSentences = <<>>
  /\ counterMode = "down" /\ currentNumber = randomLimit - 1
  /\ lastShownIdRef = currentSentence.id

\* C28  resetCycle commit.  A step on which resetCycle runs last (a filter
\* change with sentences loaded, a toggle to mode down) commits a limit of
\* the configuration as randomLimit, the limit (mode down) or 1 (mode up) as
\* currentNumber, and as currentSentence null when no sentence matches the
\* filter, else a sentence whose id is in the relevant set.  In the random configuration
\* the limit committed by such a step and by a terminal tick is in 1..7.
ResetCycleCommit ==
  [][LET relevant == Relevant(allSentences, sessionFocusId')
         InRange == /\ randomLimit' \in getNextLimit(countdownConfig)
                    /\ countdownConfig.random => randomLimit' \in 1..7
     IN
     /\ \/ sessionFocusId' # sessionFocusId /\ Len(allSentences) > 0
        \/ counterMode = "up" /\ counterMode' = "down"
        => /\ InRange
           /\ currentNumber' = IF counterMode' = "down" THEN randomLimit' ELSE 1
           /\ currentSentence' = Null <=> Len(relevant) = 0
           /\ currentSentence' # Null => currentSentence'.id \in Ids(relevant)
     /\ tickTimer = "down" /\ tickTimer' = "none" /\ currentNumber <= 1
        => InRange]_vars

\* In the random configuration and mode down a filter change with a bag in
\* use reset the cycle: the limit drawn is 7, the count starts at 7 and a
\* sentence of the category is displayed.
ResetCycleCommitWitness ==
  /\ focusCase.hadBag /\ focusCase.picked /\ ~focusCase.hadTimer
  /\ tickTimer = "none"
  /\ countdownConfig.random /\ counterMode = "down"
  /\ randomLimit = RandomSpan /\ currentNumber = RandomSpan
  /\ sessionFocusId # AllFocus
  /\ currentSentence \in Range(Relevant(allSentences, sessionFocusId))

\* C29  Non-terminal countdown tick.  When the timer of a tick that was
\* accepted in mode down with currentNumber above 1 fires, it lowers
\* currentNumber by exactly 1 and leaves currentSentence, randomLimit, the bag
\* and lastShownIdRef as they were.
NonTerminalTick ==
  [][tickTimer = "down" /\ tickTimer' = "none" /\ atAccept > 1
       => /\ currentNumber' = currentNumber - 1
          /\ UNCHANGED <<currentSentence, randomLimit, sentenceQueue,
                         lastShownIdRef>>]_vars

\* C30  Filter change clears the bag.  handleFocusChange with the filter in
\* force has no effect on the session.  A step that changes the filter leaves
\* in the bag only sentences of the list that match the new filter, each
\* once: none when no list is loaded or fewer than two sentences match, else
\* all the matching sentences but the one displayed (and, when no sentence
\* was displayed before, but the one the initial-load effect drew in the same
\* commit before the focus effect drew the one displayed).
FilterChangeClearsBag ==
  [][/\ handleFocusChange(Session, sessionFocusId) = {Session}
     /\ sessionFocusId' # sessionFocusId
          => LET relevant == Relevant(allSentences, sessionFocusId') IN
             /\ Range(sentenceQueue') \subseteq Range(relevant)
             /\ \A i, j \in 1..Len(sentenceQueue') :
                  i # j => sentenceQueue'[i].id # sentenceQueue'[j].id
             /\ Len(allSentences) = 0 \/ Len(relevant) < 2
                  => sentenceQueue' = <<>>
             /\ Len(allSentences) > 0 /\ Len(relevant) >= 2
                  => /\ currentSentence' \in Range(relevant)
                     /\ currentSentence' \notin Range(sentenceQueue')
                     /\ Len(sentenceQueue')
                          = Len(relevant) - (IF currentSentence = Null THEN 2 ELSE 1)]_vars

\* The filter was changed to a category while the bag of the old filter was
\* in use: a sentence of the category is displayed and the bag holds the
\* other sentence of the category and nothing else.
FilterChangeClearsBagWitness ==
  /\ focusCase.hadBag /\ focusCase.picked
  /\ sessionFocusId # AllFocus
  /\ Len(Relevant(allSentences, sessionFocusId)) = 2
  /\ Len(sentenceQueue) = 1
  /\ Range(sentenceQueue) \subseteq Range(Relevant(allSentences, sessionFocusId))
  /\ currentSentence \in Range(Relevant(allSentences, sessionFocusId))
  /\ currentSentence \notin Range(sentenceQueue)
  /\ currentNumber = randomLimit /\ counterMode = "down"

\* C31  Per-gesture cooldown.  Two wheel or touch gestures whose listeners
\* call handleInteraction are at least 600 ms apart, whichever of the two
\* kinds they are and whether or not the lock is held; lastScrollTime is the
\* time of the latest such call; a wheel event calls handleInteraction only
\* with deltaY below -10, a touch move only with the finger more than 50 px
\* above the gesture's touchstart, and a keydown only with a target that is
\* no INPUT and no TEXTAREA.
GestureCooldown ==
  /\ reach.gap # -1 => reach.gap >= CooldownMs
  /\ lastScrollTime = (IF reach.at = -1 THEN 0 ELSE reach.at)
  /\ reach.kind = "wheel" => reach.arg < -10
  /\ reach.kind = "touch" => reach.arg < -50
  /\ reach.kind = "key" => reach.target \notin {"INPUT", "TEXTAREA"}

\* A touch move called handleInteraction 600 ms after a wheel event did,
\* while the lock of a tick was held.
GestureCooldownWitness ==
  /\ reach.kind = "touch" /\ reach.prevKind = "wheel"
  /\ reach.gap = CooldownMs /\ reach.locked
  /\ reach.arg < -50 /\ lastScrollTime = now

\* C32  Lock liveness and lock/timer agreement.  The lock is held exactly
\* while a tick timer is pending; no second timer is pending; a held lock is
\* eventually released; and with the lock free and no overlay open an input
\* event is accepted.
LockLiveness ==
  /\ [](isAnimatingRef <=> tickTimer # "none")
  /\ [](moreTimers = <<>>)
  /\ isAnimatingRef ~> ~isAnimatingRef
  /\ [](~isAnimatingRef /\ ~showStats /\ ~showManage /\ tickTimer = "none"
         => ENABLED InputAccepted)

\* C33  No same sentence twice in a row: when a selection replaces the
\* displayed sentence (a terminal tick, a filter change, a toggle to mode
\* down) while more than one sentence matches the filter in force, the
\* sentence committed has another id than the one displayed just before.
NoSameSentenceTwice ==
  [][\/ currentSentence = Null
     \/ currentSentence'.id # currentSentence.id
     \/ Len(Relevant(allSentences', sessionFocusId')) <= 1
     \/ ~(\/ sessionFocusId' # sessionFocusId
          \/ counterMode = "up" /\ counterMode' = "down"
          \/ tickTimer = "down" /\ tickTimer' = "none" /\ currentNumber <= 1)]_vars

\* C34  Logout clears the session display: while no user is logged in no
\* sentence is left as currentSentence, in the bag or as lastShownIdRef, and
\* while a user is logged in the sentence displayed, which a tick counts, is
\* one of that user's.
LogoutClearsDisplay ==
  /\ currentUser = NoUser
       => currentSentence = Null /\ sentenceQueue = <<>> /\ lastShownIdRef = NullId
  /\ currentUser # NoUser /\ currentSentence # Null
       => Owner(currentSentence) = currentUser

\* C35  updateSentence is all-or-nothing: when the call returned
\* success:false the stored text and category links are what they were
\* before the call; when it returned success:true the text is the given text
\* and the links are exactly the given category ids.
UpdateAllOrNothing ==
  /\ updCall.phase = "failure" => dbRows = updCall.before
  /\ updCall.phase = "success"
       => /\ dbRows[updCall.id].text = updCall.text
          /\ dbRows[updCall.id].cats = updCall.cats

\* C36  Active time is never lost or rewound: the displayed dailyTime never
\* decreases, and every second the activity timer counted is in the stored
\* time-tracker total, still in unsyncedTime or in the call in flight (and so
\* reaches the stored total), whatever the interleaving of the activity
\* timer, the sync timer, the return of incrementDailyTime and the
\* subscription's time callback.
ActiveTimeKept ==
  /\ [][dailyTime' >= dailyTime]_vars
  /\ [](counted <= Count(TimeTrackerId) + unsyncedTime + SecondsInFlight)

\* C37  Polling fallback lifecycle: a polling timer exists only after the
\* subscription reported CHANNEL_ERROR or TIMED_OUT, at most one exists
\* however many error statuses arrived, and once unsubscribe has run none is
\* active and none was started by a later status.
PollingLifecycle ==
  /\ pollTimers > 0 => poll.errors > 0
  /\ pollTimers <= 1
  /\ unsubscribed => pollTimers = 0 /\ poll.late = 0

====
